---------------------------- MODULE Spec2Model ----------------------------
(***************************************************************************)
(* Model of the ato3cal repository.                                        *)
(*                                                                         *)
(*   src/src/main.rs            the interactive calculator (App, run_app,  *)
(*                              ui) over a PredictionSystem of six         *)
(*                              LinearModels                               *)
(*   src/model_builder/src/main.rs   PolyModel::predict, train_model and   *)
(*                              the training run (main)                    *)
(*                                                                         *)
(* f64 values are modelled in exact fixed point: a number v is the integer *)
(* v * Scale.  Rounding of binary floating point is not modelled.          *)
(***************************************************************************)
EXTENDS Integers, Sequences, FiniteSets, TLC

\* Longest text the operator types into one input buffer.
MaxLen == 3

RECURSIVE Pow10(_)
Pow10(n) == IF n = 0 THEN 1 ELSE 10 * Pow10(n - 1)

\* One unit of the fixed-point representation: a buffer of MaxLen characters
\* that parses has at most MaxLen - 1 fraction digits.
Scale == Pow10(MaxLen - 1)

F(n) == n * Scale

None == <<>>
Some(x) == <<x>>

VARIABLES
    my_city_point,          \* App.my_city_point: sequence of characters
    plane_seating,          \* App.plane_seating: sequence of characters
    selected_scenario_idx,  \* App.selected_scenario_idx, 0-based
    input_mode,             \* "Normal" | "Editing"
    focused_field,          \* "MyCityPoint" | "PlaneSeating" | "Scenario"
    prediction_system,      \* App.prediction_system: field name -> LinearModel
    frame,                  \* what ui drew last: scenario label and result
    pc,                     \* position of run_app: "start" | "loop" | "returned"
    weights,                \* PolyModel.weights of the model predict is called on
    predictions,            \* the two latest PolyModel::predict calls, newest last
    data_csv,               \* the records of the file ../data.csv
    records,                \* training run: CSV records not yet read
    samples,                \* training run: the samples vector of main
    design,                 \* train_model: the matrix x and the vector y
    ols,                    \* train_model: the Result of the SVD solve
    trained,                \* training run: the trained PolyModel, if any
    artifact,               \* the file ../model.bin
    tpc,                    \* position of the training run
    solver,                 \* one solve: inputs, bracket, best p2, position
    fit                     \* one two-variable fit: data, model, a prediction

appvars == <<my_city_point, plane_seating, selected_scenario_idx, input_mode,
             focused_field, prediction_system>>

toolvars == <<my_city_point, plane_seating, selected_scenario_idx, input_mode,
              focused_field, prediction_system, frame, pc>>

polyvars == <<weights, predictions>>

trainvars == <<data_csv, records, samples, design, ols, trained, artifact, tpc>>

corevars == <<solver, fit>>

vars == <<my_city_point, plane_seating, selected_scenario_idx, input_mode,
          focused_field, prediction_system, frame, pc, weights, predictions,
          data_csv, records, samples, design, ols, trained, artifact, tpc,
          solver, fit>>

------------------------------------------------------------------------------
(* LinearModel and PredictionSystem                                          *)

\* A LinearModel: slope a whole number, intercept in fixed point.
LinearModel(s, i) == [slope |-> s, intercept |-> F(i)]

\* predict without the intercept.
predict_nointercept(model, x) == model.slope * x

\* predict with the intercept subtracted instead of added.
predict_minus(model, x) == model.slope * x - model.intercept

\* LinearModel::predict: slope * x + intercept.
predict(model, x) == model.slope * x + model.intercept

SystemFields == {"stopover_same", "direct_same", "stopover_twice",
                 "direct_twice", "stopover_thrice", "direct_thrice"}

\* The system deserialized from model.bin.  The file is data, not code: its
\* six slots hold six different models here, the first the model of
\* tests::test_app_calculation (slope 2, intercept 100).
LoadedSystem ==
    [f \in SystemFields |->
        CASE f = "stopover_same"   -> LinearModel(2, 100)
          [] f = "direct_same"     -> LinearModel(2, 150)
          [] f = "stopover_twice"  -> LinearModel(4, 30000)
          [] f = "direct_twice"    -> LinearModel(3, 250)
          [] f = "stopover_thrice" -> LinearModel(5, 0)
          [] f = "direct_thrice"   -> LinearModel(0, 7)]

Systems == {LoadedSystem}

------------------------------------------------------------------------------
(* Scenario                                                                  *)

\* Scenario::all(): the six variants in declaration order.
ScenarioAll == <<"StopoverSame", "DirectSame", "StopoverTwice",
                 "DirectTwice", "StopoverThrice", "DirectThrice">>

scenarios == ScenarioAll

\* Scenario::to_str.
to_str(sc) ==
    CASE sc = "StopoverSame"   -> "Stopover (Both Cities Same Size)"
      [] sc = "DirectSame"     -> "Direct (Both Cities Same Size)"
      [] sc = "StopoverTwice"  -> "Stopover (One City Twice as Big)"
      [] sc = "DirectTwice"    -> "Direct (One City Twice as Big)"
      [] sc = "StopoverThrice" -> "Stopover (One City 3x Bigger)"
      [] sc = "DirectThrice"   -> "Direct (One City 3x Bigger)"

\* The match with the DirectTwice arm resolving to stopover_twice.
ModelSlot_dup(sc) ==
    CASE sc = "StopoverSame"   -> "stopover_same"
      [] sc = "DirectSame"     -> "direct_same"
      [] sc = "StopoverTwice"  -> "stopover_twice"
      [] sc = "DirectTwice"    -> "stopover_twice"
      [] sc = "StopoverThrice" -> "stopover_thrice"
      [] sc = "DirectThrice"   -> "direct_thrice"

\* The match of App::get_current_model: the PredictionSystem field a scenario
\* resolves to.
ModelSlot(sc) ==
    CASE sc = "StopoverSame"   -> "stopover_same"
      [] sc = "DirectSame"     -> "direct_same"
      [] sc = "StopoverTwice"  -> "stopover_twice"
      [] sc = "DirectTwice"    -> "direct_twice"
      [] sc = "StopoverThrice" -> "stopover_thrice"
      [] sc = "DirectThrice"   -> "direct_thrice"

\* App::get_current_model.
get_current_model(sys, idx) == sys[ModelSlot(scenarios[idx + 1])]

------------------------------------------------------------------------------
(* str::parse::<f64> on the text of an input buffer                          *)

\* Characters a key event can carry in this model.
Digits == {"1", "5"}
Chars == Digits \cup {".", "q"}

is_ascii_digit(c) == c \in Digits

DigitVal(c) == CASE c = "1" -> 1 [] c = "5" -> 5

\* Index of the first '.' of s, or Len(s) + 1 when there is none.
RECURSIVE DotPos(_, _)
DotPos(s, i) ==
    IF i > Len(s) THEN Len(s) + 1
    ELSE IF s[i] = "." THEN i ELSE DotPos(s, i + 1)

AllDigits(s) == \A i \in 1..Len(s) : is_ascii_digit(s[i])

\* Value of a digit string as a whole number.
RECURSIVE DigitsVal(_)
DigitsVal(s) ==
    IF s = <<>> THEN 0
    ELSE 10 * DigitsVal(SubSeq(s, 1, Len(s) - 1)) + DigitVal(s[Len(s)])

\* The decimal grammar of f64::from_str restricted to the characters above:
\*   Number ::= Digit+ | Digit+ '.' Digit* | Digit* '.' Digit+
\* Returns None, or Some(value in fixed point).
ParseF64(s) ==
    LET d    == DotPos(s, 1)
        ip   == SubSeq(s, 1, d - 1)
        fp   == SubSeq(s, d + 1, Len(s))
    IN  IF /\ AllDigits(ip)
           /\ AllDigits(fp)
           /\ Len(ip) + Len(fp) >= 1
        THEN Some(DigitsVal(ip) * Scale
                  + DigitsVal(fp) * Pow10(MaxLen - 1 - Len(fp)))
        ELSE None

------------------------------------------------------------------------------
(* App                                                                       *)

\* calculate with the operands of the subtraction exchanged.
calculate_swapped(seating_txt, point_txt, sys, idx) ==
    LET seating == ParseF64(seating_txt)
        my_point == ParseF64(point_txt)
    IN  IF seating = None THEN None
        ELSE IF my_point = None THEN None
        ELSE LET model == get_current_model(sys, idx)
                 required_sum == predict(model, seating[1])
                 other_city_needed == my_point[1] - required_sum
             IN  Some(<<required_sum, other_city_needed>>)

\* calculate giving up when the needed value exceeds 20,000.
calculate_bounded(seating_txt, point_txt, sys, idx) ==
    LET seating == ParseF64(seating_txt)
        my_point == ParseF64(point_txt)
    IN  IF seating = None THEN None
        ELSE IF my_point = None THEN None
        ELSE LET model == get_current_model(sys, idx)
                 required_sum == predict(model, seating[1])
                 other_city_needed == required_sum - my_point[1]
             IN  IF other_city_needed > F(20000) THEN None
                 ELSE Some(<<required_sum, other_city_needed>>)

\* App::calculate.
calculate(seating_txt, point_txt, sys, idx) ==
    LET seating == ParseF64(seating_txt)
        my_point == ParseF64(point_txt)
    IN  IF seating = None THEN None
        ELSE IF my_point = None THEN None
        ELSE LET model == get_current_model(sys, idx)
                 required_sum == predict(model, seating[1])
                 other_city_needed == required_sum - my_point[1]
             IN  Some(<<required_sum, other_city_needed>>)

\* next_field jumping from MyCityPoint straight to Scenario.
next_field_skips(f) ==
    CASE f = "MyCityPoint"  -> "Scenario"
      [] f = "PlaneSeating" -> "Scenario"
      [] f = "Scenario"     -> "MyCityPoint"

\* App::next_field.
next_field(f) ==
    CASE f = "MyCityPoint"  -> "PlaneSeating"
      [] f = "PlaneSeating" -> "Scenario"
      [] f = "Scenario"     -> "MyCityPoint"

\* App::prev_field.
prev_field(f) ==
    CASE f = "MyCityPoint"  -> "Scenario"
      [] f = "PlaneSeating" -> "MyCityPoint"
      [] f = "Scenario"     -> "PlaneSeating"

\* ui: the scenario label and the result area of the frame drawn from an App.
ui(point_txt, seating_txt, idx, sys) ==
    [scenario_str |-> to_str(scenarios[idx + 1]),
     result       |-> calculate(seating_txt, point_txt, sys, idx)]

\* The text of the result area.
result_text(fr) ==
    IF fr.result = None THEN "Please enter valid numbers."
    ELSE "Required Total Sum / Other City Needed"

NoFrame == [scenario_str |-> "", result |-> None]

\* The programs this specification does not run stay as they start.
PolyIdle == weights = <<>> /\ predictions = <<>>

\* No solve is under way.
NoSolve == [p1 |-> 0, seats |-> 0, is_direct |-> FALSE, low |-> 0, high |-> 0,
            best |-> None, iter |-> 0, result |-> None, stage |-> "idle"]

\* No two-variable fit is under way.
NoFit == [xs |-> <<>>, ys |-> <<>>, model |-> None, asked |-> None,
          predicted |-> None, stage |-> "idle"]

CoreIdle == solver = NoSolve /\ fit = NoFit

NoDesign == [x |-> <<>>, y |-> <<>>]

\* The file ../model.bin: absent, holding an earlier model ("old"), created
\* and still empty, or holding the serialized weights.
Artifact(kind, content) == [kind |-> kind, content |-> content]

TrainIdle ==
    /\ data_csv = <<>>
    /\ records = <<>>
    /\ samples = <<>>
    /\ design = NoDesign
    /\ ols = None
    /\ trained = None
    /\ artifact = Artifact("absent", <<>>)
    /\ tpc = "idle"

\* App::new on a deserialized PredictionSystem; run_app has not drawn yet.
Init ==
    /\ my_city_point = <<>>
    /\ plane_seating = <<>>
    /\ selected_scenario_idx = 0
    /\ input_mode = "Normal"
    /\ focused_field = "MyCityPoint"
    /\ prediction_system \in Systems
    /\ frame = NoFrame
    /\ pc = "start"
    /\ PolyIdle
    /\ TrainIdle
    /\ CoreIdle

\* terminal.draw(|f| ui(f, &app)) at the top of the loop: the frame is drawn
\* from the App as the handler leaves it.
Redraw ==
    frame' = ui(my_city_point', plane_seating', selected_scenario_idx',
                prediction_system')

\* The first pass through the top of the loop.
FirstDraw ==
    /\ pc = "start"
    /\ pc' = "loop"
    /\ UNCHANGED appvars
    /\ Redraw
    /\ UNCHANGED <<polyvars, trainvars, corevars>>

\* Scenario cycling of the Enter and Right arms.
CycleForward(idx) ==
    IF idx + 1 >= Len(scenarios) THEN 0 ELSE idx + 1

\* Backward cycling that stops at 0 instead of wrapping.
CycleBackward_stuck(idx) ==
    IF idx > 0 THEN idx - 1 ELSE 0

\* Scenario cycling of the Left arm.
CycleBackward(idx) ==
    IF idx > 0 THEN idx - 1 ELSE Len(scenarios) - 1

\* The filter letting every alphanumeric character through.
AcceptsChar_alnum(c) == is_ascii_digit(c) \/ c = "q" \/ c = "."

\* The character filter of the Editing Char arm.
AcceptsChar(c) == is_ascii_digit(c) \/ c = "."

\* A pop that removes the first character.
Pop_first(s) == IF s = <<>> THEN s ELSE SubSeq(s, 2, Len(s))

\* String::pop.
Pop(s) == IF s = <<>> THEN s ELSE SubSeq(s, 1, Len(s) - 1)

\* KeyCode values the handler tells apart; "F1" stands for every other key.
PlainKeys == {"Tab", "Down", "BackTab", "Up", "Enter", "Left", "Right",
              "Esc", "Backspace", "F1"}
Keys == {<<"Char", c>> : c \in Chars} \cup {<<k>> : k \in PlainKeys}

IsChar(key) == key[1] = "Char"

\* event::read() returned a key press while the loop runs.
KeyEvent == pc = "loop" /\ UNCHANGED <<polyvars, trainvars, corevars>>

\* InputMode::Normal, KeyCode::Char('q') => return Ok(()).
NormalQuit(key) ==
    /\ input_mode = "Normal"
    /\ key = <<"Char", "q">>
    /\ KeyEvent
    /\ pc' = "returned"
    /\ UNCHANGED <<appvars, frame>>

\* InputMode::Normal, Tab | Down => app.next_field().
NormalNext(key) ==
    /\ input_mode = "Normal"
    /\ key \in {<<"Tab">>, <<"Down">>}
    /\ KeyEvent
    /\ focused_field' = next_field(focused_field)
    /\ UNCHANGED <<my_city_point, plane_seating, selected_scenario_idx,
                   input_mode, prediction_system, pc>>
    /\ Redraw

\* InputMode::Normal, BackTab | Up => app.prev_field().
NormalPrev(key) ==
    /\ input_mode = "Normal"
    /\ key \in {<<"BackTab">>, <<"Up">>}
    /\ KeyEvent
    /\ focused_field' = prev_field(focused_field)
    /\ UNCHANGED <<my_city_point, plane_seating, selected_scenario_idx,
                   input_mode, prediction_system, pc>>
    /\ Redraw

\* The Enter arm starting to edit whichever field is focused.
NormalEnter_always(key) ==
    /\ input_mode = "Normal"
    /\ key = <<"Enter">>
    /\ KeyEvent
    /\ input_mode' = "Editing"
    /\ UNCHANGED <<my_city_point, plane_seating, selected_scenario_idx,
                   focused_field, prediction_system, pc>>
    /\ Redraw

\* InputMode::Normal, Enter: cycle the scenario or start editing.
NormalEnter(key) ==
    /\ input_mode = "Normal"
    /\ key = <<"Enter">>
    /\ KeyEvent
    /\ IF focused_field = "Scenario"
       THEN /\ selected_scenario_idx' = CycleForward(selected_scenario_idx)
            /\ UNCHANGED input_mode
       ELSE /\ input_mode' = "Editing"
            /\ UNCHANGED selected_scenario_idx
    /\ UNCHANGED <<my_city_point, plane_seating, focused_field,
                   prediction_system, pc>>
    /\ Redraw

\* The Left arm moving the last model into the first slot of the system
\* instead of moving the index.
NormalLeft_moves_model(key) ==
    /\ input_mode = "Normal"
    /\ key = <<"Left">>
    /\ KeyEvent
    /\ prediction_system' =
           IF focused_field = "Scenario"
           THEN [prediction_system EXCEPT
                    !["stopover_same"] = prediction_system["direct_thrice"]]
           ELSE prediction_system
    /\ UNCHANGED <<my_city_point, plane_seating, selected_scenario_idx,
                   input_mode, focused_field, pc>>
    /\ Redraw

\* InputMode::Normal, Left.
NormalLeft(key) ==
    /\ input_mode = "Normal"
    /\ key = <<"Left">>
    /\ KeyEvent
    /\ selected_scenario_idx' =
           IF focused_field = "Scenario"
           THEN CycleBackward(selected_scenario_idx)
           ELSE selected_scenario_idx
    /\ UNCHANGED <<my_city_point, plane_seating, input_mode, focused_field,
                   prediction_system, pc>>
    /\ Redraw

\* InputMode::Normal, Right.
NormalRight(key) ==
    /\ input_mode = "Normal"
    /\ key = <<"Right">>
    /\ KeyEvent
    /\ selected_scenario_idx' =
           IF focused_field = "Scenario"
           THEN CycleForward(selected_scenario_idx)
           ELSE selected_scenario_idx
    /\ UNCHANGED <<my_city_point, plane_seating, input_mode, focused_field,
                   prediction_system, pc>>
    /\ Redraw

\* InputMode::Normal, _ => {}.
NormalOther(key) ==
    /\ input_mode = "Normal"
    /\ key \notin {<<"Char", "q">>, <<"Tab">>, <<"Down">>, <<"BackTab">>,
                    <<"Up">>, <<"Enter">>, <<"Left">>, <<"Right">>}
    /\ KeyEvent
    /\ UNCHANGED <<appvars, pc>>
    /\ Redraw

\* Leaving Editing with the focused buffer cleared.
EditingLeave_clears(key) ==
    /\ input_mode = "Editing"
    /\ key \in {<<"Enter">>, <<"Esc">>}
    /\ KeyEvent
    /\ input_mode' = "Normal"
    /\ my_city_point' =
           IF focused_field = "MyCityPoint" THEN <<>> ELSE my_city_point
    /\ plane_seating' =
           IF focused_field = "PlaneSeating" THEN <<>> ELSE plane_seating
    /\ UNCHANGED <<selected_scenario_idx, focused_field, prediction_system,
                   pc>>
    /\ Redraw

\* InputMode::Editing, Enter | Esc => Normal.
EditingLeave(key) ==
    /\ input_mode = "Editing"
    /\ key \in {<<"Enter">>, <<"Esc">>}
    /\ KeyEvent
    /\ input_mode' = "Normal"
    /\ UNCHANGED <<my_city_point, plane_seating, selected_scenario_idx,
                   focused_field, prediction_system, pc>>
    /\ Redraw

\* InputMode::Editing, Char(c): push c on the focused buffer when the filter
\* accepts it.  A buffer holds at most MaxLen characters in this model.
EditingChar(key) ==
    /\ input_mode = "Editing"
    /\ IsChar(key)
    /\ KeyEvent
    /\ LET c == key[2] IN
       CASE focused_field = "MyCityPoint" ->
              /\ AcceptsChar(c) => Len(my_city_point) < MaxLen
              /\ my_city_point' = IF AcceptsChar(c)
                                   THEN Append(my_city_point, c)
                                   ELSE my_city_point
              /\ UNCHANGED plane_seating
         [] focused_field = "PlaneSeating" ->
              /\ AcceptsChar(c) => Len(plane_seating) < MaxLen
              /\ plane_seating' = IF AcceptsChar(c)
                                   THEN Append(plane_seating, c)
                                   ELSE plane_seating
              /\ UNCHANGED my_city_point
         [] OTHER -> UNCHANGED <<my_city_point, plane_seating>>
    /\ UNCHANGED <<selected_scenario_idx, input_mode, focused_field,
                   prediction_system, pc>>
    /\ Redraw

\* InputMode::Editing, Backspace: pop the focused buffer.
EditingBackspace(key) ==
    /\ input_mode = "Editing"
    /\ key = <<"Backspace">>
    /\ KeyEvent
    /\ CASE focused_field = "MyCityPoint" ->
              /\ my_city_point' = Pop(my_city_point)
              /\ UNCHANGED plane_seating
         [] focused_field = "PlaneSeating" ->
              /\ plane_seating' = Pop(plane_seating)
              /\ UNCHANGED my_city_point
         [] OTHER -> UNCHANGED <<my_city_point, plane_seating>>
    /\ UNCHANGED <<selected_scenario_idx, input_mode, focused_field,
                   prediction_system, pc>>
    /\ Redraw

\* InputMode::Editing, _ => {}.
EditingOther(key) ==
    /\ input_mode = "Editing"
    /\ ~IsChar(key)
    /\ key \notin {<<"Enter">>, <<"Esc">>, <<"Backspace">>}
    /\ KeyEvent
    /\ UNCHANGED <<appvars, pc>>
    /\ Redraw

\* One pass of the run_app loop on a key press: the match on input_mode and
\* key.code, then the redraw at the top of the next pass.
KeyPress(key) ==
    \/ NormalQuit(key)
    \/ NormalNext(key)
    \/ NormalPrev(key)
    \/ NormalEnter(key)
    \/ NormalLeft(key)
    \/ NormalRight(key)
    \/ NormalOther(key)
    \/ EditingLeave(key)
    \/ EditingChar(key)
    \/ EditingBackspace(key)
    \/ EditingOther(key)

Next ==
    \/ FirstDraw
    \/ \E key \in Keys : NormalQuit(key)
    \/ \E key \in Keys : NormalNext(key)
    \/ \E key \in Keys : NormalPrev(key)
    \/ \E key \in Keys : NormalEnter(key)
    \/ \E key \in Keys : NormalLeft(key)
    \/ \E key \in Keys : NormalRight(key)
    \/ \E key \in Keys : NormalOther(key)
    \/ \E key \in Keys : EditingLeave(key)
    \/ \E key \in Keys : EditingChar(key)
    \/ \E key \in Keys : EditingBackspace(key)
    \/ \E key \in Keys : EditingOther(key)

Spec == Init /\ [][Next]_vars

------------------------------------------------------------------------------
(* PolyModel::predict (specification SpecPoly)                               *)
(* Weights and features are whole numbers here.                              *)

\* Magnitude of a non-zero weight, largest seat count, and largest ratio
\* argument the calls are drawn from.
MaxWeight == 1
MaxSeats == 1
MaxRatio == 2

WeightValues == {0 - MaxWeight, 0, MaxWeight}
SeatValues == 0..MaxSeats
RatioValues == (0 - 1)..MaxRatio

\* Weight vectors of 0 to 5 entries.
WeightVectors == UNION {[1..n -> WeightValues] : n \in 0..5}

Min(a, b) == IF a <= b THEN a ELSE b

\* features.iter().zip(&self.weights).map(|(f, w)| f * w).sum(): zip stops at
\* the shorter of the two.
RECURSIVE ZipDot(_, _, _)
ZipDot(features, w, n) ==
    IF n = 0 THEN 0
    ELSE ZipDot(features, w, n - 1) + features[n] * w[n]

\* predict without the constant feature in front.
PolyModel_predict_nobias(w, seats, ratio, is_direct) ==
    LET direct_val == IF is_direct THEN 1 ELSE 0
        features == <<seats, ratio, ratio * ratio, direct_val>>
    IN  ZipDot(features, w, Min(Len(features), Len(w)))

\* predict with the seats and ratio features in each other's place.
PolyModel_predict_swapped(w, seats, ratio, is_direct) ==
    LET direct_val == IF is_direct THEN 1 ELSE 0
        features == <<1, ratio, seats, ratio * ratio, direct_val>>
    IN  ZipDot(features, w, Min(Len(features), Len(w)))

\* predict with the ratio feature repeated in place of its square.
PolyModel_predict_nosquare(w, seats, ratio, is_direct) ==
    LET direct_val == IF is_direct THEN 1 ELSE 0
        features == <<1, seats, ratio, ratio, direct_val>>
    IN  ZipDot(features, w, Min(Len(features), Len(w)))

\* PolyModel::predict.
PolyModel_predict(w, seats, ratio, is_direct) ==
    LET direct_val == IF is_direct THEN 1 ELSE 0
        features == <<1, seats, ratio, ratio * ratio, direct_val>>
    IN  ZipDot(features, w, Min(Len(features), Len(w)))

\* The interactive tool is not running.
ToolIdle ==
    /\ my_city_point = <<>>
    /\ plane_seating = <<>>
    /\ selected_scenario_idx = 0
    /\ input_mode = "Normal"
    /\ focused_field = "MyCityPoint"
    /\ prediction_system = LoadedSystem
    /\ frame = NoFrame
    /\ pc = "idle"

\* A PolyModel with any weight vector, before any call.
InitPoly ==
    /\ weights \in WeightVectors
    /\ predictions = <<>>
    /\ ToolIdle
    /\ TrainIdle
    /\ CoreIdle

\* One call model.predict(seats, ratio, is_direct); the two latest calls and
\* their results are kept.
PredictCall(seats, ratio, is_direct) ==
    /\ predictions' =
          LET call == [seats |-> seats, ratio |-> ratio,
                       is_direct |-> is_direct,
                       out |-> PolyModel_predict(weights, seats, ratio,
                                                 is_direct)]
          IN  IF Len(predictions) < 2 THEN Append(predictions, call)
              ELSE <<predictions[2], call>>
    /\ UNCHANGED weights
    /\ UNCHANGED <<toolvars, trainvars, corevars>>

NextPoly ==
    \E seats \in SeatValues, ratio \in RatioValues, is_direct \in BOOLEAN :
        PredictCall(seats, ratio, is_direct)

SpecPoly == InitPoly /\ [][NextPoly]_vars

------------------------------------------------------------------------------
(* The training run: main and train_model of model_builder                   *)
(* (specification SpecTrain)                                                 *)

\* Most records in data.csv.
MaxRecords == 2

\* Field texts of data.csv, as sequences of characters: seat capacities,
\* one target sum per column 2..7, a name, and a field that is not a number.
SeatTexts == {<<"1">>, <<"5">>}
TargetText(c) ==
    CASE c = 2 -> <<"1", "1">>
      [] c = 3 -> <<"1", "5">>
      [] c = 4 -> <<"5", "1">>
      [] c = 5 -> <<"5", "5">>
      [] c = 6 -> <<"1", "1", "1">>
      [] c = 7 -> <<"1", "1", "5">>
NameText == <<"q", "q">>
NotANumber == <<"1", "q">>

\* A record of 8 fields (columns 0..7 are fields[1]..fields[8]): a name, the
\* seat capacity and six target sums; bad = 0 for a fully numeric record,
\* else the column 1..7 whose field is not a number.
CsvRecord(seats, bad) ==
    [c \in 1..8 |->
        IF c = 1 THEN NameText
        ELSE IF c = bad + 1 THEN NotANumber
        ELSE IF c = 2 THEN seats
        ELSE TargetText(c - 1)]

CsvRecords == {CsvRecord(seats, bad) : seats \in SeatTexts, bad \in 0..7}

CsvFiles == UNION {[1..n -> CsvRecords] : n \in 0..MaxRecords}

\* str::parse::<f64> on a CSV field, in whole units: the numeric field texts
\* above have no fraction digits.
ParseField(field) ==
    LET r == ParseF64(field)
    IN  IF r = None THEN None ELSE Some(r[1] \div Scale)

FieldParses(field) == ParseField(field) # None

\* The (ratio, is_direct) pushed with CSV column c, c in 2..7.
ColumnRatio(c) == CASE c \in {2, 3} -> 1 [] c \in {4, 5} -> 2 [] c \in {6, 7} -> 3
ColumnDirect(c) == c \in {3, 5, 7}

\* First column in 1..7 of a record whose field does not parse, 8 if none.
RECURSIVE FirstBad(_, _)
FirstBad(record, c) ==
    IF c > 7 THEN 8
    ELSE IF ~FieldParses(record[c + 1]) THEN c ELSE FirstBad(record, c + 1)

\* The samples the loop body pushes for columns 2..last of a record.
RECURSIVE Pushed(_, _, _)
Pushed(record, c, last) ==
    IF c > last THEN <<>>
    ELSE <<[seats |-> ParseField(record[2])[1], ratio |-> ColumnRatio(c),
            is_direct |-> ColumnDirect(c),
            target |-> ParseField(record[c + 1])[1]]>>
         \o Pushed(record, c + 1, last)

\* A row with the seats and ratio columns in each other's place.
FeatureRow_swapped(sample) ==
    <<1, sample.ratio, sample.seats, sample.ratio * sample.ratio,
      IF sample.is_direct THEN 1 ELSE 0>>

\* The row train_model pushes on x_vals for one sample.
FeatureRow(sample) ==
    <<1, sample.seats, sample.ratio, sample.ratio * sample.ratio,
      IF sample.is_direct THEN 1 ELSE 0>>

\* Number of columns of the design matrix.
m == 5

\* The results x.svd(true, true).solve(&y, 1e-10) can return: Ok with one
\* weight per column, or Err.  The solve is library code; its result is
\* drawn from its result type.
SolveResults == {<<"Ok", w>> : w \in [1..m -> WeightValues]} \cup {<<"Err">>}

\* The file ../model.bin before the run.
OldArtifacts == {Artifact("absent", <<>>), Artifact("old", <<>>)}

InitTrain ==
    /\ data_csv \in CsvFiles
    /\ records = data_csv
    /\ samples = <<>>
    /\ design = NoDesign
    /\ ols = None
    /\ trained = None
    /\ artifact \in OldArtifacts
    /\ tpc = "open"
    /\ ToolIdle
    /\ PolyIdle
    /\ CoreIdle

TrainFrame == UNCHANGED <<toolvars, polyvars, corevars, data_csv>>

\* File::open("../data.csv")? succeeds.
OpenFile ==
    /\ tpc = "open"
    /\ tpc' = "read"
    /\ UNCHANGED <<records, samples, design, ols, trained, artifact>>
    /\ TrainFrame

\* File::open("../data.csv")? fails: main returns Err.
OpenFails ==
    /\ tpc = "open"
    /\ tpc' = "err_open"
    /\ UNCHANGED <<records, samples, design, ols, trained, artifact>>
    /\ TrainFrame

\* The loop body going on to the next record when a field does not parse.
ReadRecord_skip ==
    /\ tpc = "read"
    /\ records # <<>>
    /\ LET record == Head(records)
           bad == FirstBad(record, 1)
       IN  samples' = samples \o Pushed(record, 2, bad - 1)
    /\ tpc' = "read"
    /\ records' = Tail(records)
    /\ UNCHANGED <<design, ols, trained, artifact>>
    /\ TrainFrame

\* One pass of the loop over rdr.records(): parse column 1, then columns 2..7
\* pushing one sample each; the first field that does not parse returns Err.
ReadRecord ==
    /\ tpc = "read"
    /\ records # <<>>
    /\ LET record == Head(records)
           bad == FirstBad(record, 1)
       IN  IF bad = 8
           THEN /\ samples' = samples \o Pushed(record, 2, 7)
                /\ tpc' = "read"
           ELSE /\ samples' = samples \o Pushed(record, 2, bad - 1)
                /\ tpc' = "err_parse"
    /\ records' = Tail(records)
    /\ UNCHANGED <<design, ols, trained, artifact>>
    /\ TrainFrame

\* train_model(&samples) once the records are exhausted: build x and y, solve,
\* and either return the model or panic in expect("Linear regression failed").
TrainModel(result) ==
    /\ tpc = "read"
    /\ records = <<>>
    /\ design' = [x |-> [i \in 1..Len(samples) |-> FeatureRow(samples[i])],
                  y |-> [i \in 1..Len(samples) |-> samples[i].target]]
    /\ ols' = result
    /\ IF result[1] = "Ok"
       THEN /\ trained' = Some(result[2])
            /\ tpc' = "trained"
       ELSE /\ UNCHANGED trained
            /\ tpc' = "panicked"
    /\ UNCHANGED <<records, samples, artifact>>
    /\ TrainFrame

\* File::create("../model.bin")? succeeds: the file exists and is empty.
CreateFile ==
    /\ tpc = "trained"
    /\ artifact' = Artifact("empty", <<>>)
    /\ tpc' = "created"
    /\ UNCHANGED <<records, samples, design, ols, trained>>
    /\ TrainFrame

\* File::create("../model.bin")? fails: main returns Err.
CreateFails ==
    /\ tpc = "trained"
    /\ tpc' = "err_create"
    /\ UNCHANGED <<records, samples, design, ols, trained, artifact>>
    /\ TrainFrame

\* bincode::serialize_into(&mut writer, &model)? succeeds; main returns Ok.
WriteModel ==
    /\ tpc = "created"
    /\ artifact' = Artifact("model", trained[1])
    /\ tpc' = "done"
    /\ UNCHANGED <<records, samples, design, ols, trained>>
    /\ TrainFrame

\* bincode::serialize_into(&mut writer, &model)? fails: main returns Err.
WriteFails ==
    /\ tpc = "created"
    /\ tpc' = "err_write"
    /\ UNCHANGED <<records, samples, design, ols, trained, artifact>>
    /\ TrainFrame

NextTrain ==
    \/ OpenFile
    \/ OpenFails
    \/ ReadRecord
    \/ \E result \in SolveResults : TrainModel(result)
    \/ CreateFile
    \/ CreateFails
    \/ WriteModel
    \/ WriteFails

SpecTrain == InitTrain /\ [][NextTrain]_vars

------------------------------------------------------------------------------
(* EquilibriumSolver (specification SpecSolve).  The solver is described in  *)
(* section 4.4 of the specification and has no source in the repository; it  *)
(* is modelled from that text, over PolyModel::predict of model_builder.     *)
(* Point values are in fixed point, weights and the ratio feature in whole   *)
(* numbers.                                                                  *)

\* Known values and constant sums are taken in steps up to this many.
MaxStep == 2

\* Upper bound of the search, single-query use.
U == 20000

\* Iteration count, single-query use.
Iterations == 100

Max(a, b) == IF a >= b THEN a ELSE b

\* Known values p1, some of them one fraction unit off a whole number.
KnownValues == {F(60 * k) + j : k \in 0..MaxStep, j \in {0, 1}}

\* Models predicting a constant sum: small sums, and sums at and beyond the
\* upper bound of the search.
ConstantSums == {100 * k : k \in 0..MaxStep} \cup {U + 60 * k : k \in 0..MaxStep}
ConstantModels == {<<S, 0, 0, 0, 0>> : S \in ConstantSums}

\* max(p1,p2) / max(min(p1,p2), 1.0), cut to a whole number.
ratio(p1, p2) == Max(p1, p2) \div Max(Min(p1, p2), F(1))

\* The sum the model requires at p2.
required_sum(w, p1, p2, seats, is_direct) ==
    F(PolyModel_predict(w, seats, ratio(p1, p2), is_direct))

\* The feasibility predicate p1 + p2 >= predict(seats, ratio(p1,p2), isDirect).
Feasible(w, p1, p2, seats, is_direct) ==
    p1 + p2 >= required_sum(w, p1, p2, seats, is_direct)

\* (low + high) / 2 on the grid of representable values: a midpoint between
\* two grid values goes to the even one, as in binary floating point.
Midpoint(low, high) ==
    LET f == (low + high) \div 2
    IN  IF (low + high) % 2 = 0 \/ f % 2 = 0 THEN f ELSE f + 1

\* solve(p1, seats, isDirect) is entered on a constant model.
InitSolve ==
    /\ weights \in ConstantModels
    /\ predictions = <<>>
    /\ \E p1 \in KnownValues, seats \in SeatValues, is_direct \in BOOLEAN :
          solver = [p1 |-> p1, seats |-> seats, is_direct |-> is_direct,
                    low |-> 0, high |-> F(U), best |-> None, iter |-> 0,
                    result |-> None, stage |-> "search"]
    /\ fit = NoFit
    /\ ToolIdle
    /\ TrainIdle

SolveFrame == UNCHANGED <<toolvars, polyvars, trainvars, fit>>

\* One bisection iteration: test the midpoint, keep it as the best p2 and
\* move the upper end down if it is feasible, else move the lower end up.
Bisect ==
    /\ solver.stage = "search"
    /\ solver.iter < Iterations
    /\ LET mid == Midpoint(solver.low, solver.high)
       IN  solver' =
             IF Feasible(weights, solver.p1, mid, solver.seats,
                         solver.is_direct)
             THEN [solver EXCEPT !.best = Some(mid), !.high = mid,
                                 !.iter = @ + 1]
             ELSE [solver EXCEPT !.low = mid, !.iter = @ + 1]
    /\ SolveFrame

\* The iteration budget is used up: return (requiredSum, p2) for the best p2,
\* or "no feasible solution in range".
SolveReturn ==
    /\ solver.stage = "search"
    /\ solver.iter = Iterations
    /\ solver' =
          [solver EXCEPT
             !.result =
                IF solver.best = None THEN None
                ELSE Some(<<required_sum(weights, solver.p1, solver.best[1],
                                         solver.seats, solver.is_direct),
                            solver.best[1]>>),
             !.stage = "returned"]
    /\ SolveFrame

NextSolve ==
    \/ Bisect
    \/ SolveReturn

SpecSolve == InitSolve /\ [][NextSolve]_vars

------------------------------------------------------------------------------
(* Two-variable OLS of the LeastSquaresTrainer (specification SpecFit).      *)
(* The trainer is described in section 4.2 of the specification and has no   *)
(* source in the repository; it is modelled from that text and produces the  *)
(* LinearModel of src/src/main.rs.  The data lie on lines with whole slope   *)
(* and intercept, so every division below is exact.                          *)

MaxPoints == 3
MaxX == 3
MaxSlope == 2
MaxIntercept == 1

XSeqs == UNION {[1..n -> 0..MaxX] : n \in 2..MaxPoints}

RECURSIVE SumTo(_, _)
SumTo(seq, n) == IF n = 0 THEN 0 ELSE SumTo(seq, n - 1) + seq[n]

RECURSIVE SumProdTo(_, _, _)
SumProdTo(a, b, n) ==
    IF n = 0 THEN 0 ELSE SumProdTo(a, b, n - 1) + a[n] * b[n]

\* slope = (n*Sxy - Sx*Sy) / (n*Sxx - Sx*Sx), intercept = (Sy - slope*Sx) / n;
\* a zero denominator is a fitting failure.
TwoVariableOLS(xs, ys) ==
    LET n == Len(xs)
        sx == SumTo(xs, n)
        sy == SumTo(ys, n)
        sxy == SumProdTo(xs, ys, n)
        sxx == SumProdTo(xs, xs, n)
        den == n * sxx - sx * sx
    IN  IF den = 0 THEN None
        ELSE LET slope == (n * sxy - sx * sy) \div den
             IN  Some([slope |-> slope,
                       intercept |-> (F(sy) - slope * F(sx)) \div n])

\* Training data on a line y = slope*x + intercept.
InitFit ==
    /\ \E xs \in XSeqs, slope \in (0 - MaxSlope)..MaxSlope,
          intercept \in (0 - MaxIntercept)..MaxIntercept :
          fit = [xs |-> xs,
                 ys |-> [i \in 1..Len(xs) |-> slope * xs[i] + intercept],
                 model |-> None, asked |-> None, predicted |-> None,
                 stage |-> "data"]
    /\ solver = NoSolve
    /\ ToolIdle
    /\ PolyIdle
    /\ TrainIdle

FitFrame == UNCHANGED <<toolvars, polyvars, trainvars, solver>>

\* The trainer runs on the data.
FitLine ==
    /\ fit.stage = "data"
    /\ LET result == TwoVariableOLS(fit.xs, fit.ys)
       IN  fit' = [fit EXCEPT !.model = result,
                              !.stage = IF result = None THEN "failed"
                                        ELSE "fitted"]
    /\ FitFrame

\* LinearModel::predict on the fitted model.
PredictAt(x) ==
    /\ fit.stage = "fitted"
    /\ fit' = [fit EXCEPT !.asked = Some(x),
                          !.predicted = Some(predict(fit.model[1], F(x)))]
    /\ FitFrame

NextFit ==
    \/ FitLine
    \/ \E x \in 0..(MaxX + 1) : PredictAt(x)

SpecFit == InitFit /\ [][NextFit]_vars

------------------------------------------------------------------------------
(* Properties of the interactive tool (specification Spec)                   *)

\* The PredictionSystem field that carries a scenario's name, by position in
\* the Scenario enum.
FieldOfIndex == <<"stopover_same", "direct_same", "stopover_twice",
                  "direct_twice", "stopover_thrice", "direct_thrice">>

Drawn == pc # "start"

BothParse == ParseF64(plane_seating) # None /\ ParseF64(my_city_point) # None

SeatingValue == ParseF64(plane_seating)[1]
PointValue == ParseF64(my_city_point)[1]

SelectedModel == prediction_system[FieldOfIndex[selected_scenario_idx + 1]]

RequiredSum == SelectedModel.slope * SeatingValue + SelectedModel.intercept

\* The result in the drawn frame, when there is one.
ShownSum == frame.result[1][1]
ShownNeeded == frame.result[1][2]

\* C1: whenever both buffers parse, the drawn result of App::calculate is
\* Some((required_sum, needed)) with required_sum = slope * seating +
\* intercept of the selected scenario's model and needed = required_sum -
\* my_city_point.
C1_CalculateIsLinear ==
    (Drawn /\ BothParse) =>
        frame.result = Some(<<RequiredSum, RequiredSum - PointValue>>)

\* C1 witness: slope 2, intercept 100, seating 1, point 515 gives (102, -413).
C1_Witness ==
    /\ Drawn
    /\ selected_scenario_idx = 0
    /\ plane_seating = <<"1">>
    /\ my_city_point = <<"5", "1", "5">>
    /\ frame.result = Some(<<F(102), F(0 - 413)>>)

\* C2 as claimed: a returned p2 is non-negative, reaches the required sum
\* and is the least non-negative value doing so.
C2_Original ==
    (Drawn /\ frame.result # None) =>
        /\ ShownNeeded >= 0
        /\ PointValue + ShownNeeded >= ShownSum
        /\ (ShownNeeded > 0 => PointValue + (ShownNeeded - 1) < ShownSum)

\* C2 amended: a returned p2 reaches the required sum exactly, no smaller
\* value does, and p2 is negative exactly when p1 exceeds the required sum.
C2_NeededIsExactDifference ==
    (Drawn /\ frame.result # None) =>
        /\ PointValue + ShownNeeded >= ShownSum
        /\ PointValue + (ShownNeeded - 1) < ShownSum
        /\ (ShownNeeded < 0 <=> PointValue > ShownSum)

\* C2 witness: a result whose p2 is negative.
C2_Witness ==
    /\ Drawn
    /\ frame.result # None
    /\ ShownNeeded < 0
    /\ PointValue > RequiredSum

\* Malformed text in the words of C3: empty, a lone '.', or more than one '.'.
DotCount(s) == Cardinality({i \in 1..Len(s) : s[i] = "."})
Malformed(s) == s = <<>> \/ s = <<".">> \/ DotCount(s) > 1

\* C3: the drawn result is None, shown as 'Please enter valid numbers.',
\* exactly when one of the two buffers is malformed; whenever both are well
\* formed again the result is Some.
C3_NoneIffMalformed ==
    Drawn =>
        /\ (frame.result = None) <=>
               (Malformed(plane_seating) \/ Malformed(my_city_point))
        /\ (result_text(frame) = "Please enter valid numbers.") <=>
               (Malformed(plane_seating) \/ Malformed(my_city_point))

\* C3 witness: a buffer with two dots next to a well-formed one.
C3_Witness ==
    /\ Drawn
    /\ my_city_point = <<"1", ".", ".">>
    /\ plane_seating = <<"5">>
    /\ result_text(frame) = "Please enter valid numbers."

FieldOfLabel(l) ==
    CASE l = "Stopover (Both Cities Same Size)" -> "stopover_same"
      [] l = "Direct (Both Cities Same Size)"   -> "direct_same"
      [] l = "Stopover (One City Twice as Big)" -> "stopover_twice"
      [] l = "Direct (One City Twice as Big)"   -> "direct_twice"
      [] l = "Stopover (One City 3x Bigger)"    -> "stopover_thrice"
      [] l = "Direct (One City 3x Bigger)"      -> "direct_thrice"

\* C10: the selected index resolves to the field of the same name, no other
\* index resolves to that field, and the drawn result is computed with the
\* model the drawn label names.
C10_DispatchOneToOne ==
    Drawn =>
        /\ ModelSlot(scenarios[selected_scenario_idx + 1])
              = FieldOfIndex[selected_scenario_idx + 1]
        /\ \A j \in 0..5 :
              j # selected_scenario_idx =>
                  ModelSlot(scenarios[j + 1])
                      # ModelSlot(scenarios[selected_scenario_idx + 1])
        /\ BothParse =>
              LET named == prediction_system[FieldOfLabel(frame.scenario_str)]
              IN  ShownSum = named.slope * SeatingValue + named.intercept

\* C10 witness: DirectTwice selected, seating 15: 3 * 15 + 250 = 295.
C10_Witness ==
    /\ Drawn
    /\ selected_scenario_idx = 3
    /\ frame.scenario_str = "Direct (One City Twice as Big)"
    /\ plane_seating = <<"1", "5">>
    /\ frame.result # None
    /\ ShownSum = F(295)

\* C11: every slope and intercept of App.prediction_system keeps the value
\* it has at App::new, and a second calculate on the App the frame was drawn
\* from gives the drawn result again.
C11_ModelImmutable ==
    /\ pc \in {"start", "loop", "returned"} => prediction_system = LoadedSystem
    /\ Drawn =>
          frame.result = calculate(plane_seating, my_city_point,
                                   prediction_system, selected_scenario_idx)

\* C11 witness: after editing both buffers and moving the scenario to
\* StopoverThrice, the system is the loaded one and a result is drawn.
C11_Witness ==
    /\ pc = "loop"
    /\ selected_scenario_idx = 4
    /\ plane_seating = <<"1", "5">>
    /\ my_city_point = <<"5">>
    /\ prediction_system = LoadedSystem
    /\ frame.result = Some(<<F(75), F(70)>>)

\* C14 as claimed: in every state of the loop, Normal or Editing, whichever
\* field is focused, a 'q' key press ends the loop.
C14_QuitFromEveryState ==
    pc = "loop" => ENABLED (KeyPress(<<"Char", "q">>) /\ pc' = "returned")

NextKeys == {<<"Tab">>, <<"Down">>}
PrevKeys == {<<"BackTab">>, <<"Up">>}

\* The focus order in the words of C15.
FieldAfter(f) ==
    CASE f = "MyCityPoint"  -> "PlaneSeating"
      [] f = "PlaneSeating" -> "Scenario"
      [] f = "Scenario"     -> "MyCityPoint"

\* C15: in Normal mode Tab/Down move the focus one step along MyCityPoint ->
\* PlaneSeating -> Scenario -> MyCityPoint and BackTab/Up one step back;
\* next_field and prev_field undo each other, three of either return to the
\* start, and navigation changes no buffer, index or mode.
C15_NavigationIsThreeCycle ==
    [][/\ (input_mode = "Normal" /\ \E key \in NextKeys : KeyPress(key)) =>
            /\ focused_field' = FieldAfter(focused_field)
            /\ prev_field(focused_field') = focused_field
            /\ next_field(next_field(focused_field')) = focused_field
            /\ UNCHANGED <<my_city_point, plane_seating,
                           selected_scenario_idx, input_mode>>
       /\ (input_mode = "Normal" /\ \E key \in PrevKeys : KeyPress(key)) =>
            /\ FieldAfter(focused_field') = focused_field
            /\ next_field(focused_field') = focused_field
            /\ prev_field(prev_field(focused_field')) = focused_field
            /\ UNCHANGED <<my_city_point, plane_seating,
                           selected_scenario_idx, input_mode>>]_vars

\* C15 witness: the focus moved to Scenario with text typed before.
C15_Witness ==
    /\ pc = "loop"
    /\ input_mode = "Normal"
    /\ focused_field = "Scenario"
    /\ my_city_point = <<"1">>
    /\ plane_seating = <<"5">>

OnScenario == input_mode = "Normal" /\ focused_field = "Scenario"

\* C16: the index stays in 0..5; on the Scenario field Right and Enter map
\* i to (i+1) mod 6 and Left maps i to (i+5) mod 6; forward then backward
\* restores it; it changes only in Normal mode on the Scenario field.
C16_ScenarioIndexCycles ==
    /\ [](/\ selected_scenario_idx \in 0..5
          /\ CycleBackward(CycleForward(selected_scenario_idx))
                = selected_scenario_idx)
    /\ [][/\ (OnScenario /\ \E key \in {<<"Right">>, <<"Enter">>} :
                                KeyPress(key)) =>
                selected_scenario_idx' = (selected_scenario_idx + 1) % 6
          /\ (OnScenario /\ KeyPress(<<"Left">>)) =>
                selected_scenario_idx' = (selected_scenario_idx + 5) % 6
          /\ selected_scenario_idx' # selected_scenario_idx =>
                OnScenario]_vars

\* C16 witness: the index wrapped backward from 0 to 5.
C16_Witness ==
    /\ pc = "loop"
    /\ selected_scenario_idx = 5
    /\ focused_field = "Scenario"
    /\ my_city_point = <<>>
    /\ plane_seating = <<>>

\* C17: Editing mode implies the focus is on MyCityPoint or PlaneSeating,
\* and the focus does not change while in Editing mode.
C17_EditingOnlyOnTextFields ==
    /\ [](input_mode = "Editing" =>
            focused_field \in {"MyCityPoint", "PlaneSeating"})
    /\ [][input_mode = "Editing" => focused_field' = focused_field]_vars

\* C17 witness: editing the PlaneSeating buffer.
C17_Witness ==
    /\ pc = "loop"
    /\ input_mode = "Editing"
    /\ focused_field = "PlaneSeating"
    /\ plane_seating = <<"5", ".">>

OnlyDigitsAndDot(s) == \A i \in 1..Len(s) : s[i] \in {"1", "5", "."}

\* The buffer as a Char(c) press in Editing mode leaves it, in the words of
\* C18.
AfterChar(s, c) == IF c \in {"1", "5", "."} THEN s \o <<c>> ELSE s

\* The buffer as a Backspace press leaves it.
AfterBackspace(s) ==
    IF Len(s) = 0 THEN s ELSE [i \in 1..(Len(s) - 1) |-> s[i]]

\* The focused buffer becomes the given text: after_point for MyCityPoint,
\* after_seating for PlaneSeating.
FocusedBecomes(after_point, after_seating) ==
    /\ focused_field = "MyCityPoint" => my_city_point' = after_point
    /\ focused_field = "PlaneSeating" => plane_seating' = after_seating

\* C18: no key changes a buffer in Normal mode; in Editing mode the
\* unfocused buffer and the index never change, Char(c) appends c to the
\* focused buffer iff c is a digit or '.', Backspace removes its last
\* character, any other key leaves it; both buffers hold digits and '.'
\* only.
C18_BuffersEditedOnlyWhenFocused ==
    /\ [](OnlyDigitsAndDot(my_city_point) /\ OnlyDigitsAndDot(plane_seating))
    /\ [][/\ input_mode = "Normal" =>
                UNCHANGED <<my_city_point, plane_seating>>
          /\ input_mode = "Editing" =>
                /\ UNCHANGED selected_scenario_idx
                /\ focused_field = "MyCityPoint" => UNCHANGED plane_seating
                /\ focused_field = "PlaneSeating" => UNCHANGED my_city_point
                /\ \A c \in Chars :
                      \/ FocusedBecomes(AfterChar(my_city_point, c),
                                        AfterChar(plane_seating, c))
                      \/ ~KeyPress(<<"Char", c>>)
                /\ \/ FocusedBecomes(AfterBackspace(my_city_point),
                                      AfterBackspace(plane_seating))
                   \/ ~KeyPress(<<"Backspace">>)
                /\ \A k \in PlainKeys \ {"Backspace"} :
                      \/ UNCHANGED <<my_city_point, plane_seating>>
                      \/ ~KeyPress(<<k>>)]_vars

\* C18 witness: a buffer typed and shortened again next to an untouched one.
C18_Witness ==
    /\ pc = "loop"
    /\ input_mode = "Editing"
    /\ focused_field = "PlaneSeating"
    /\ plane_seating = <<".", "1">>
    /\ my_city_point = <<"5", "5", "5">>

\* C20 as claimed: in Normal mode Enter switches to Editing whichever field
\* is focused.
C20_Original ==
    [][(input_mode = "Normal" /\ KeyPress(<<"Enter">>)) =>
          input_mode' = "Editing"]_vars

\* C20 amended: in Normal mode Enter switches to Editing on MyCityPoint and
\* PlaneSeating, and on Scenario cycles the scenario and stays in Normal; in
\* Editing mode Enter or Esc switch back to Normal leaving buffers, focus and
\* index alone, and one of them can always be pressed.
C20_EnterEditsTextFields ==
    /\ []((pc = "loop" /\ input_mode = "Editing") =>
            ENABLED EditingLeave(<<"Esc">>))
    /\ [][/\ (input_mode = "Normal" /\ focused_field # "Scenario"
               /\ KeyPress(<<"Enter">>)) =>
                input_mode' = "Editing"
          /\ (input_mode = "Normal" /\ focused_field = "Scenario"
               /\ KeyPress(<<"Enter">>)) =>
                /\ input_mode' = "Normal"
                /\ selected_scenario_idx' # selected_scenario_idx
          /\ (input_mode = "Editing"
               /\ \E key \in {<<"Enter">>, <<"Esc">>} : KeyPress(key)) =>
                /\ input_mode' = "Normal"
                /\ UNCHANGED <<my_city_point, plane_seating, focused_field,
                               selected_scenario_idx>>]_vars

\* C20 witness: back in Normal mode on PlaneSeating with the typed text kept.
C20_Witness ==
    /\ pc = "loop"
    /\ input_mode = "Normal"
    /\ focused_field = "PlaneSeating"
    /\ plane_seating = <<"1", "5", "1">>

------------------------------------------------------------------------------
(* Properties of PolyModel::predict (specification SpecPoly)                 *)

Calls == {predictions[i] : i \in 1..Len(predictions)}

DirectVal(b) == IF b THEN 1 ELSE 0

\* C5: with exactly 5 weights every call returns w0 + w1*seats + w2*ratio +
\* w3*ratio*ratio + w4*d, and two calls with equal arguments return equal
\* results.
C5_PredictIsDotProduct ==
    Len(weights) = 5 =>
        /\ \A c \in Calls :
              c.out = weights[1] * 1 + weights[2] * c.seats
                      + weights[3] * c.ratio
                      + weights[4] * c.ratio * c.ratio
                      + weights[5] * DirectVal(c.is_direct)
        /\ \A c1, c2 \in Calls :
              (c1.seats = c2.seats /\ c1.ratio = c2.ratio
               /\ c1.is_direct = c2.is_direct) => c1.out = c2.out

\* C5 witness: five equal positive weights w called on seats 1, ratio 2,
\* direct: w * (1 + 1 + 2 + 4 + 1).
C5_Witness ==
    /\ Len(weights) = 5
    /\ \A i \in 1..5 : weights[i] = MaxWeight
    /\ \E c \in Calls :
          c.seats = 1 /\ c.ratio = 2 /\ c.is_direct /\ c.out = 9 * MaxWeight

\* The weights followed by zeros up to 5 entries.
ZeroPadded(w) == [i \in 1..5 |-> IF i <= Len(w) THEN w[i] ELSE 0]

\* C6 as claimed: with fewer than 5 weights no call returns the number that
\* zero-padding the weights would give.
C6_ShortWeightsFail ==
    Len(weights) < 5 =>
        \A c \in Calls :
            LET z == ZeroPadded(weights)
            IN  c.out # z[1] + z[2] * c.seats + z[3] * c.ratio
                        + z[4] * c.ratio * c.ratio
                        + z[5] * DirectVal(c.is_direct)

\* Two calls that differ in the ratio only, the first with the smaller one.
RatioPairs ==
    {p \in Calls \X Calls :
        /\ p[1].seats = p[2].seats
        /\ p[1].is_direct = p[2].is_direct
        /\ p[1].ratio < p[2].ratio}

\* C7 as claimed: predict is monotone in ratio in the direction of the sign
\* of weights[2], whatever the other weights.
C7_Original ==
    Len(weights) >= 3 =>
        \A p \in RatioPairs :
            /\ weights[3] > 0 => p[1].out <= p[2].out
            /\ weights[3] < 0 => p[1].out >= p[2].out

\* The ratio-squared coefficient weights[3], zero when the vector is shorter.
SquareWeight == IF Len(weights) >= 4 THEN weights[4] ELSE 0

\* C7 amended: over non-negative ratios, predict is monotone in the direction
\* of the sign of weights[2] provided weights[3] is zero or has that sign.
C7_MonotoneWithoutOpposingSquare ==
    Len(weights) >= 3 =>
        \A p \in RatioPairs :
            p[1].ratio >= 0 =>
                /\ (weights[3] > 0 /\ SquareWeight >= 0) =>
                      p[1].out <= p[2].out
                /\ (weights[3] < 0 /\ SquareWeight <= 0) =>
                      p[1].out >= p[2].out

\* C7 witness: a positive ratio coefficient and a result that grows with the
\* ratio.
C7_Witness ==
    /\ Len(weights) = 5
    /\ weights[3] > 0
    /\ SquareWeight >= 0
    /\ \E p \in RatioPairs : p[1].ratio >= 0 /\ p[1].out < p[2].out

------------------------------------------------------------------------------
(* Properties of the training run (specification SpecTrain)                  *)

\* C8 as claimed: when the least-squares solve fails, the run does not abort
\* and no model results.
C8_FitFailureIsRecoverable ==
    (ols # None /\ ols[1] = "Err") => (tpc # "panicked" /\ trained = None)

\* Some record of data.csv has a non-numeric field in columns 1..7.
SomeFieldNotNumeric ==
    \E i \in 1..Len(data_csv) : \E c \in 1..7 :
        data_csv[i][c + 1] = NotANumber

\* C9: with a non-numeric field in any record the run never reaches
\* train_model and never creates or writes model.bin; it ends in the parse
\* error with the artifact as it was.  The artifact changes only once every
\* record is read, six samples each, and the model is trained.
C9_ParseFailureLeavesArtifact ==
    /\ SomeFieldNotNumeric =>
          /\ tpc \in {"open", "read", "err_open", "err_parse"}
          /\ design = NoDesign /\ ols = None /\ trained = None
          /\ artifact \in OldArtifacts
    /\ tpc = "err_parse" =>
          (SomeFieldNotNumeric /\ trained = None /\ artifact \in OldArtifacts)
    /\ artifact \notin OldArtifacts =>
          /\ records = <<>>
          /\ ~SomeFieldNotNumeric
          /\ Len(samples) = 6 * Len(data_csv)
          /\ trained # None
          /\ artifact \in {Artifact("empty", <<>>),
                            Artifact("model", trained[1])}

\* C9 witness: the second record fails after some of its samples were
\* pushed, and the existing artifact is still there.
C9_Witness ==
    /\ tpc = "err_parse"
    /\ Len(data_csv) = 2
    /\ Len(samples) > 6
    /\ artifact = Artifact("old", <<>>)
    /\ trained = None

\* The weight vector that is 1 at position k and 0 elsewhere.
UnitWeights(k) == [j \in 1..5 |-> IF j = k THEN 1 ELSE 0]

\* C19: every row of the design matrix is [1, seats, ratio, ratio*ratio,
\* is_direct as 0/1] of its sample, 5 long; predict on the sample's inputs
\* with weight k alone set to 1 returns column k of the row, and with the
\* trained weights the dot product of the row and the weights; the trained
\* model has exactly 5 weights.
C19_RowMatchesPredictFeatures ==
    /\ \A i \in 1..Len(design.x) :
          LET s == samples[i]
          IN  /\ Len(design.x[i]) = 5
              /\ design.x[i] = <<1, s.seats, s.ratio, s.ratio * s.ratio,
                                 IF s.is_direct THEN 1 ELSE 0>>
              /\ \A k \in 1..5 :
                    PolyModel_predict(UnitWeights(k), s.seats, s.ratio,
                                      s.is_direct) = design.x[i][k]
    /\ ols # None => Len(design.x) = Len(samples)
    /\ trained # None =>
          /\ Len(trained[1]) = 5
          /\ \A i \in 1..Len(samples) :
                PolyModel_predict(trained[1], samples[i].seats,
                                  samples[i].ratio, samples[i].is_direct)
                  = ZipDot(design.x[i], trained[1], Len(trained[1]))

\* C19 witness: a model trained on two records of different seat counts and
\* written out, with a weight on the seats column only.
C19_Witness ==
    /\ tpc = "done"
    /\ Len(samples) = 12
    /\ samples[1].seats # samples[7].seats
    /\ trained = Some(<<0, MaxWeight, 0, 0, 0>>)

------------------------------------------------------------------------------
(* Properties of the EquilibriumSolver (specification SpecSolve)             *)

Abs(a) == IF a >= 0 THEN a ELSE 0 - a

\* The constant S a model [S,0,0,0,0] predicts, in fixed point.
ConstantSum == F(weights[1])

\* C12: for a model with weights [S,0,0,0,0] and a known value p1 with
\* 0 <= S - p1 <= U, the solve returns a p2 within 1.0 of S - p1, together
\* with the required sum S; S = 100 and p1 = 60 give 40.
C12_ConstantModelSolved ==
    (/\ solver.stage = "returned"
     /\ weights \in ConstantModels
     /\ 0 <= ConstantSum - solver.p1
     /\ ConstantSum - solver.p1 <= F(U)) =>
        /\ solver.result # None
        /\ solver.result[1][1] = ConstantSum
        /\ Abs(solver.result[1][2] - (ConstantSum - solver.p1)) <= F(1)
        /\ (weights[1] = 100 /\ solver.p1 = F(60)) =>
              Abs(solver.result[1][2] - F(40)) <= F(1)

\* C12 witness: the solve of the example has returned 40.
C12_Witness ==
    /\ solver.stage = "returned"
    /\ solver.iter = Iterations
    /\ weights = <<100, 0, 0, 0, 0>>
    /\ solver.p1 = F(60)
    /\ solver.result = Some(<<F(100), F(40)>>)

------------------------------------------------------------------------------
(* Properties of the two-variable fit (specification SpecFit)                *)

\* The points of the fit lie on y = slope*x + intercept.
OnLine(slope, intercept) ==
    \A i \in 1..Len(fit.xs) : fit.ys[i] = slope * fit.xs[i] + intercept

DistinctX == \E i, j \in 1..Len(fit.xs) : fit.xs[i] # fit.xs[j]

\* C13: once the trainer has run on points with distinct x on a line
\* y = slope*x + intercept, the fitted LinearModel has that slope and
\* intercept and predict on it returns slope*x + intercept.
C13_FitRecoversLine ==
    \A slope \in (0 - MaxSlope)..MaxSlope,
       intercept \in (0 - MaxIntercept)..MaxIntercept :
        (/\ fit.stage \in {"fitted", "failed"}
         /\ DistinctX
         /\ OnLine(slope, intercept)) =>
            /\ fit.model = Some([slope |-> slope, intercept |-> F(intercept)])
            /\ fit.asked # None =>
                  fit.predicted = Some(F(slope * fit.asked[1] + intercept))

\* C13 witness: x = [1,2,3], y = [2,4,6] fitted to slope 2, intercept 0, and
\* predict(4) = 8.
C13_Witness ==
    /\ fit.xs = <<1, 2, 3>>
    /\ fit.ys = <<2, 4, 6>>
    /\ fit.model = Some([slope |-> 2, intercept |-> 0])
    /\ fit.asked = Some(4)
    /\ fit.predicted = Some(F(8))

==============================================================================
